---- MODULE Spec2Model ----
(***************************************************************************)
(* A model of floris/simulation/farm.py (class Farm) and of the Coordinate *)
(* rotation exercised by floris/Coordinate_test.py.                        *)
(*                                                                         *)
(* Turbine objects live in a heap: an object is its index in `heap`, and   *)
(* heap[o] is the object's yaw_angle attribute.  The turbine template the  *)
(* caller passes to Farm.__init__ is object TemplateId.                    *)
(***************************************************************************)
EXTENDS Integers, Sequences, FiniteSets, TLC

\* ---------------------------------------------------------------- bounds
MaxTurbines == 2    \* layout_x and layout_y have 0..MaxTurbines entries
MaxYaw == 1         \* yaw angles are drawn from 0..MaxYaw
MaxReinit == 2      \* at most MaxReinit re-discretizations per farm
MaxCoord == 2       \* Coordinate components are drawn from -MaxCoord..MaxCoord

YawValues == 0..MaxYaw

VARIABLES
    pc,               \* "new": Farm.__init__ not yet run; "idle": between calls;
                      \* "failed": construction raised; "swm_*": inside set_wake_model
    layout_x,         \* properties["layout_x"]
    layout_y,         \* properties["layout_y"]
    wind,             \* the flow field's ambient wind properties
    heap,             \* heap[o]: yaw_angle of turbine object o
    turbines,         \* self.turbines: the turbine map's turbine objects, in order
    velocity_model,   \* self.flow_field.wake.velocity_model (its kind)
    deflection_model, \* self.flow_field.wake.deflection_model (its kind)
    resolution,       \* the resolution the flow field is discretized at
    reinit_count,     \* number of reinitialize_flow_field calls made by the Farm
    last_error,       \* what the last call raised: "none" or the error's kind
    wake_model_arg,   \* the argument of the set_wake_model call in progress
    coordinate        \* a Coordinate object: x, y, xprime, yprime

vars == <<pc, layout_x, layout_y, wind, heap, turbines, velocity_model,
          deflection_model, resolution, reinit_count, last_error,
          wake_model_arg, coordinate>>

\* ------------------------------------------------------- wake model table

\* farm.py line 98
valid_wake_models == {"curl", "gauss", "jensen", "floris"}

\* The names a caller may pass: the four valid ones, a wrong one, and a valid
\* one in the wrong case (the comparison of line 99 is case-sensitive).
WakeModelNames == valid_wake_models \cup {"not_a_model", "Jensen"}

\* The velocity model each branch of lines 102-113 assigns; a name that matches
\* no branch leaves the current one (cur).
velocity_for(wake_model, cur) ==
    IF wake_model = "jensen" THEN "jensen"
    ELSE IF wake_model = "floris" THEN "floris"
    ELSE IF wake_model = "gauss" THEN "gauss"
    ELSE IF wake_model = "curl" THEN "curl"
    ELSE cur

deflection_for_swapped(wake_model, cur) ==
    IF wake_model = "jensen" THEN "floris"
    ELSE IF wake_model = "floris" THEN "jimenez"
    ELSE IF wake_model = "gauss" THEN "gauss_deflection"
    ELSE IF wake_model = "curl" THEN "curl"
    ELSE cur

\* The deflection model each branch of lines 102-113 assigns.
deflection_for(wake_model, cur) ==
    IF wake_model = "jensen" THEN "jimenez"
    ELSE IF wake_model = "floris" THEN "floris"
    ELSE IF wake_model = "gauss" THEN "gauss_deflection"
    ELSE IF wake_model = "curl" THEN "curl"
    ELSE cur

\* velocity_model.model_grid_resolution: the opaque resolution descriptor each
\* velocity model supplies (the velocity model classes are defined elsewhere in the package).
model_grid_resolution(vm) ==
    CASE vm = "jensen" -> "grid_jensen"
      [] vm = "floris" -> "grid_floris"
      [] vm = "gauss"  -> "grid_gauss"
      [] vm = "curl"   -> "grid_curl"

\* FlowField.reinitialize_flow_field(with_resolution=r): the flow field is
\* re-discretized at r (FlowField is defined elsewhere in the package).
reinitialize_flow_field(with_resolution) == with_resolution

\* The wake configurations a Farm can be built with: a velocity model and the
\* deflection model that belongs to it.
WakeConfigs ==
    { <<"jensen", "jimenez">>, <<"floris", "floris">>,
      <<"gauss", "gauss_deflection">>, <<"curl", "curl">> }

\* The ambient conditions the flow field is built with, lines 67-72 (speed in
\* m/s, direction in degrees, the others in thousandths).
AmbientWind ==
    [wind_speed |-> 8, wind_direction |-> 270, wind_shear |-> 120,
     wind_veer |-> 0, turbulence_intensity |-> 60, air_density |-> 1225]

\* ------------------------------------------------------------ the heap

\* The turbine template passed to Farm.__init__.
TemplateId == 1

deepcopy_alias(h, o) == [heap |-> h, obj |-> o]

\* copy.deepcopy(o), line 76: a fresh object with o's attributes.
deepcopy(h, o) == [heap |-> Append(h, h[o]), obj |-> Len(h) + 1]

\* [copy.deepcopy(turbine) for ii in range(n)], line 76: the heap after the
\* copies and the list of the copies.
RECURSIVE copies(_, _, _)
copies(h, o, n) ==
    IF n = 0 THEN [heap |-> h, objs |-> <<>>]
    ELSE LET rest == copies(h, o, n - 1)
             c == deepcopy(rest.heap, o)
         IN [heap |-> c.heap, objs |-> Append(rest.objs, c.obj)]

Min(a, b) == IF a < b THEN a ELSE b

\* ------------------------------------------------------------ Farm.__init__

\* The coordinates of a layout of n turbines: 0, 1, ..., n-1 along one axis.
Layout(n) == [i \in 1..n |-> i - 1]

\* The Coordinate of the specifications that rotate none.
NoCoordinate == [x |-> 0, y |-> 0, xprime |-> 0, yprime |-> 0, rotated |-> FALSE]

\* Before construction: the caller holds the configuration, a turbine template
\* and a wake configuration.
Init ==
    /\ pc = "new"
    /\ \E n \in 0..MaxTurbines : layout_x = Layout(n)
    /\ \E n \in 0..MaxTurbines : layout_y = Layout(n)
    /\ wind = AmbientWind
    /\ \E y \in YawValues : heap = <<y>>
    /\ turbines = <<>>
    /\ \E w \in WakeConfigs : velocity_model = w[1] /\ deflection_model = w[2]
    /\ resolution = "none"
    /\ reinit_count = 0
    /\ last_error = "none"
    /\ wake_model_arg = "none"
    /\ coordinate = NoCoordinate

\* TurbineMap(layout_x, layout_y, turbines) when the three sequences pair up
\* (TurbineMap is defined elsewhere in the package): one turbine per position, in order.
TurbineMap(lx, ly, ts) == SubSeq(ts, 1, Min(Len(lx), Min(Len(ly), Len(ts))))

\* Farm.__init__, lines 59-78.  The arguments of FlowField(...) are evaluated
\* first: the list of deep copies (line 76), then TurbineMap (line 73); the
\* flow field is then discretized at the wake's velocity model's resolution.
\* __init__ compares no lengths itself.  With layouts of unequal length the
\* TurbineMap either pairs up to the shortest or raises.
Farm__init__ ==
    /\ pc = "new"
    /\ LET cs == copies(heap, TemplateId, Len(layout_x))
       IN /\ heap' = cs.heap
          /\ \/ /\ turbines' = TurbineMap(layout_x, layout_y, cs.objs)
                /\ resolution' =
                     reinitialize_flow_field(model_grid_resolution(velocity_model))
                /\ pc' = "idle"
                /\ last_error' = "none"
             \/ /\ Len(layout_x) # Len(layout_y)
                /\ turbines' = <<>>
                /\ resolution' = resolution
                /\ pc' = "failed"
                /\ last_error' = "ShapeMismatch"
    /\ UNCHANGED <<layout_x, layout_y, wind, velocity_model, deflection_model,
                   reinit_count, wake_model_arg, coordinate>>

\* ---------------------------------------------------------- set_wake_model

\* set_wake_model without the re-discretization of line 115.
set_wake_model_stale(wake_model) ==
    /\ pc = "idle"
    /\ IF wake_model \notin valid_wake_models
       THEN /\ last_error' = "InvalidConfiguration"
            /\ UNCHANGED <<velocity_model, deflection_model, resolution,
                           reinit_count>>
       ELSE /\ reinit_count < MaxReinit
            /\ velocity_model' = velocity_for(wake_model, velocity_model)
            /\ deflection_model' = deflection_for(wake_model, deflection_model)
            /\ resolution' = resolution
            /\ reinit_count' = reinit_count + 1
            /\ last_error' = "none"
    /\ UNCHANGED <<pc, layout_x, layout_y, wind, heap, turbines,
                   wake_model_arg, coordinate>>

\* Farm.set_wake_model(wake_model), lines 86-115, as one step: the membership
\* test and its raise (lines 98-100), the two assignments of the matching
\* branch (lines 102-113), the re-discretization at the new velocity model's
\* resolution (line 115).
set_wake_model(wake_model) ==
    /\ pc = "idle"
    /\ IF wake_model \notin valid_wake_models
       THEN /\ last_error' = "InvalidConfiguration"
            /\ UNCHANGED <<velocity_model, deflection_model, resolution,
                           reinit_count>>
       ELSE /\ reinit_count < MaxReinit
            /\ velocity_model' = velocity_for(wake_model, velocity_model)
            /\ deflection_model' = deflection_for(wake_model, deflection_model)
            /\ resolution' =
                 reinitialize_flow_field(model_grid_resolution(velocity_model'))
            /\ reinit_count' = reinit_count + 1
            /\ last_error' = "none"
    /\ UNCHANGED <<pc, layout_x, layout_y, wind, heap, turbines,
                   wake_model_arg, coordinate>>

\* ---------------------------------------------------------- set_yaw_angles

\* What a caller may pass to a farm of n turbines: a number (a Python float
\* or int), a list of numbers that is shorter than n or of length n, or a
\* list one longer, whose last entry (zip never reads it) is 0.
YawInputsOf ==
    [n \in 0..MaxTurbines |->
        { [kind |-> "scalar", val |-> v] : v \in YawValues }
        \cup { [kind |-> "list", val |-> s] :
                 s \in UNION { [1..m -> YawValues] : m \in 0..n } }
        \cup { [kind |-> "list", val |-> Append(s, 0)] :
                 s \in [1..n -> YawValues] }]

YawInputs(n) == YawInputsOf[n]

yaw_list_single(yaw_angles, n) ==
    IF yaw_angles.kind = "scalar"
    THEN [i \in 1..Min(n, 1) |-> yaw_angles.val]
    ELSE yaw_angles.val

\* Lines 131-132: a number becomes a list of len(self.turbines) copies of it.
yaw_list(yaw_angles, n) ==
    IF yaw_angles.kind = "scalar"
    THEN [i \in 1..n |-> yaw_angles.val]
    ELSE yaw_angles.val

\* Lines 134-135: for yaw_angle, turbine in zip(yaw_angles, self.turbines):
\* turbine.yaw_angle = yaw_angle.  zip stops at the shorter of the two; the
\* assignments happen in order, from pair i on.
RECURSIVE zip_assign(_, _, _, _)
zip_assign(h, yaws, ts, i) ==
    IF i > Len(yaws) \/ i > Len(ts) THEN h
    ELSE zip_assign([h EXCEPT ![ts[i]] = yaws[i]], yaws, ts, i + 1)

\* set_yaw_angles followed by a re-discretization of the flow field.
set_yaw_angles_reinit(yaw_angles) ==
    /\ pc = "idle"
    /\ reinit_count < MaxReinit
    /\ heap' = zip_assign(heap, yaw_list(yaw_angles, Len(turbines)), turbines, 1)
    /\ last_error' = "none"
    /\ resolution' =
         reinitialize_flow_field(model_grid_resolution(velocity_model))
    /\ reinit_count' = reinit_count + 1
    /\ UNCHANGED <<pc, layout_x, layout_y, wind, turbines, velocity_model,
                   deflection_model, wake_model_arg, coordinate>>

\* Farm.set_yaw_angles(yaw_angles), lines 118-135.  Nothing is raised.
set_yaw_angles(yaw_angles) ==
    /\ pc = "idle"
    /\ heap' = zip_assign(heap, yaw_list(yaw_angles, Len(turbines)), turbines, 1)
    /\ last_error' = "none"
    /\ UNCHANGED <<pc, layout_x, layout_y, wind, turbines, velocity_model,
                   deflection_model, resolution, reinit_count, wake_model_arg,
                   coordinate>>

\* ------------------------------------------------------ the specification

\* A Farm is built, then set_wake_model and set_yaw_angles are called one
\* after the other, in any order, with any arguments.
Next ==
    \/ Farm__init__
    \/ \E wake_model \in WakeModelNames : set_wake_model(wake_model)
    \/ \E yaw_angles \in YawInputs(Len(turbines)) : set_yaw_angles(yaw_angles)

Spec == Init /\ [][Next]_vars

\* ------------------------------------- set_wake_model, statement by statement

\* The membership test of lines 99-100 left out: every name goes on.
swm_check_nocheck(wake_model) ==
    /\ pc = "idle"
    /\ reinit_count < MaxReinit
    /\ pc' = "swm_velocity"
    /\ wake_model_arg' = wake_model
    /\ last_error' = "none"
    /\ UNCHANGED <<layout_x, layout_y, wind, heap, turbines, velocity_model,
                   deflection_model, resolution, reinit_count, coordinate>>

\* Lines 98-100: the membership test.  An invalid name raises and the call is
\* over; a valid one goes on to the branch's first assignment.
swm_check(wake_model) ==
    /\ pc = "idle"
    /\ IF wake_model \notin valid_wake_models
       THEN /\ last_error' = "InvalidConfiguration"
            /\ UNCHANGED <<pc, wake_model_arg>>
       ELSE /\ reinit_count < MaxReinit
            /\ pc' = "swm_velocity"
            /\ wake_model_arg' = wake_model
            /\ last_error' = "none"
    /\ UNCHANGED <<layout_x, layout_y, wind, heap, turbines, velocity_model,
                   deflection_model, resolution, reinit_count, coordinate>>

\* Lines 103, 106, 109, 112: self.flow_field.wake.velocity_model = ...
swm_assign_velocity ==
    /\ pc = "swm_velocity"
    /\ velocity_model' = velocity_for(wake_model_arg, velocity_model)
    /\ pc' = "swm_deflection"
    /\ UNCHANGED <<layout_x, layout_y, wind, heap, turbines, deflection_model,
                   resolution, reinit_count, last_error, wake_model_arg,
                   coordinate>>

\* The second assignment of the branch left out.
swm_assign_deflection_skipped ==
    /\ pc = "swm_deflection"
    /\ pc' = "swm_reinit"
    /\ UNCHANGED <<layout_x, layout_y, wind, heap, turbines, velocity_model,
                   deflection_model, resolution, reinit_count, last_error,
                   wake_model_arg, coordinate>>

\* Lines 104, 107, 110, 113: self.flow_field.wake.deflection_model = ...
swm_assign_deflection ==
    /\ pc = "swm_deflection"
    /\ deflection_model' = deflection_for(wake_model_arg, deflection_model)
    /\ pc' = "swm_reinit"
    /\ UNCHANGED <<layout_x, layout_y, wind, heap, turbines, velocity_model,
                   resolution, reinit_count, last_error, wake_model_arg,
                   coordinate>>

\* Line 115: the re-discretization; the call returns.
swm_reinitialize ==
    /\ pc = "swm_reinit"
    /\ resolution' =
         reinitialize_flow_field(model_grid_resolution(velocity_model))
    /\ reinit_count' = reinit_count + 1
    /\ pc' = "idle"
    /\ wake_model_arg' = "none"
    /\ UNCHANGED <<layout_x, layout_y, wind, heap, turbines, velocity_model,
                   deflection_model, last_error, coordinate>>

\* The same program with every statement of set_wake_model a step of its own:
\* what an observer sees who looks at the Farm while a call is in progress.
NextSteps ==
    \/ Farm__init__
    \/ \E wake_model \in WakeModelNames : swm_check(wake_model)
    \/ swm_assign_velocity
    \/ swm_assign_deflection
    \/ swm_reinitialize
    \/ \E yaw_angles \in YawInputs(Len(turbines)) : set_yaw_angles(yaw_angles)

SpecSteps == Init /\ [][NextSteps]_vars

\* ------------------------------------------------------- Coordinate.rotate_z

\* Transformed coordinates are kept in units of 1/Scale.
Scale == 10000

\* Angles are multiples of pi/4: theta = k * pi/4.
EighthTurns == 0..7

\* cos(k * pi/4) and sin(k * pi/4), in units of 1/Scale.
cos8(k) ==
    CASE k % 8 = 0 -> Scale
      [] k % 8 = 1 -> (7071 * Scale) \div 10000
      [] k % 8 = 2 -> 0
      [] k % 8 = 3 -> -((7071 * Scale) \div 10000)
      [] k % 8 = 4 -> -Scale
      [] k % 8 = 5 -> -((7071 * Scale) \div 10000)
      [] k % 8 = 6 -> 0
      [] k % 8 = 7 -> (7071 * Scale) \div 10000

sin8(k) == cos8(k + 6)

\* Coordinate(x, y): a new, not yet rotated point.
Coordinate(x, y) ==
    [x |-> x, y |-> y, xprime |-> 0, yprime |-> 0, rotated |-> FALSE]

CoordValues == (-MaxCoord)..MaxCoord

\* The rotation with the sign of the sine terms exchanged (a clockwise turn).
rotate_z_clockwise(k) ==
    /\ coordinate' =
         [coordinate EXCEPT
            !.xprime = coordinate.x * cos8(k) + coordinate.y * sin8(k),
            !.yprime = coordinate.y * cos8(k) - coordinate.x * sin8(k),
            !.rotated = TRUE]
    /\ UNCHANGED <<pc, layout_x, layout_y, wind, heap, turbines, velocity_model,
                   deflection_model, resolution, reinit_count, last_error,
                   wake_model_arg>>

\* coordinate.rotate_z(theta) about the origin, theta = k * pi/4: the
\* transformed coordinates are set from the rotation matrix, x and y are kept.
rotate_z(k) ==
    /\ coordinate' =
         [coordinate EXCEPT
            !.xprime = coordinate.x * cos8(k) - coordinate.y * sin8(k),
            !.yprime = coordinate.x * sin8(k) + coordinate.y * cos8(k),
            !.rotated = TRUE]
    /\ UNCHANGED <<pc, layout_x, layout_y, wind, heap, turbines, velocity_model,
                   deflection_model, resolution, reinit_count, last_error,
                   wake_model_arg>>

\* A Coordinate on its own, as in Coordinate_test.py: no Farm is built.
InitCoord ==
    /\ pc = "new"
    /\ layout_x = <<>>
    /\ layout_y = <<>>
    /\ wind = AmbientWind
    /\ heap = <<0>>
    /\ turbines = <<>>
    /\ velocity_model = "jensen"
    /\ deflection_model = "jimenez"
    /\ resolution = "none"
    /\ reinit_count = 0
    /\ last_error = "none"
    /\ wake_model_arg = "none"
    /\ \E x \in CoordValues, y \in CoordValues : coordinate = Coordinate(x, y)

NextCoord == \E k \in EighthTurns : rotate_z(k)

SpecCoord == InitCoord /\ [][NextCoord]_vars

\* ================================================================ claims

\* The documented pairing: the deflection model that belongs to each wake model.
DocumentedDeflection(name) ==
    CASE name = "jensen" -> "jimenez"
      [] name = "floris" -> "floris"
      [] name = "gauss"  -> "gauss_deflection"
      [] name = "curl"   -> "curl"
      [] OTHER -> "undocumented"

\* The objects of a list of turbines are pairwise distinct.
Distinct(ts) == \A i, j \in 1..Len(ts) : i # j => ts[i] # ts[j]

\* C1: for each of the four valid names, after set_wake_model(name) the
\* velocity model is that name's, the deflection model is the documented
\* partner and the flow field's resolution is the one that velocity model
\* requires, whatever was selected before.
C1_ModelPair ==
    [][\A name \in valid_wake_models :
          set_wake_model(name) =>
             /\ velocity_model' = name
             /\ deflection_model' = DocumentedDeflection(name)
             /\ resolution' = model_grid_resolution(name)]_vars

\* A farm switched to jensen from another model.
C1_Witness ==
    /\ pc = "idle"
    /\ reinit_count = 2
    /\ velocity_model = "jensen"
    /\ deflection_model = "jimenez"
    /\ resolution = model_grid_resolution("jensen")

\* C2: set_wake_model with a name outside the four valid ones raises at the
\* membership test, before any assignment: the call is over (no assignment
\* step follows), and the velocity model, the deflection model, the
\* resolution and every turbine's yaw angle are what they were.
C2_InvalidRejected ==
    [][\A name \in WakeModelNames \ valid_wake_models :
          swm_check(name) =>
             /\ last_error' = "InvalidConfiguration"
             /\ pc' = "idle"
             /\ UNCHANGED <<velocity_model, deflection_model, resolution,
                            reinit_count, heap, turbines>>]_vars

\* A rejected call on a farm whose model was switched and whose yaw angles
\* were set before.
C2_Witness ==
    /\ pc = "idle"
    /\ last_error = "InvalidConfiguration"
    /\ reinit_count = 1
    /\ velocity_model = "gauss"
    /\ Len(turbines) = 2
    /\ heap[turbines[2]] # heap[TemplateId]

\* C3: between calls, from construction on, the flow field's resolution is
\* the one the selected velocity model requires.
C3_ResolutionTracksModel ==
    pc = "idle" => resolution = model_grid_resolution(velocity_model)

\* A farm after a model switch to curl and a yaw assignment.
C3_Witness ==
    /\ pc = "idle"
    /\ reinit_count >= 1
    /\ velocity_model = "curl"
    /\ resolution = model_grid_resolution("curl")
    /\ Len(turbines) >= 1
    /\ heap[turbines[1]] # heap[TemplateId]

\* C4, as claimed: at no point of a set_wake_model call does an observer see
\* a velocity model with a deflection model that is not its partner.
C4_PairNeverSplit ==
    deflection_model = DocumentedDeflection(velocity_model)

\* C4, amended: the velocity model and the deflection model are partners at
\* every point except the one between the two assignments of a call, where
\* the velocity model is already the new one and the deflection model is
\* still the previous model's.
C4_SplitOnlyBetweenAssignments ==
    \/ deflection_model = DocumentedDeflection(velocity_model)
    \/ /\ pc = "swm_deflection"
       /\ velocity_model = wake_model_arg

\* Between the two assignments of a switch from jensen to curl.
C4_Witness ==
    /\ pc = "swm_deflection"
    /\ velocity_model = "curl"
    /\ deflection_model = "jimenez"

\* C5, as claimed: set_yaw_angles with a list whose length is not the number
\* of turbines raises ShapeMismatch and changes no yaw angle.
C5_LengthMismatchRejected ==
    [][\A yaw_angles \in YawInputs(Len(turbines)) :
          ( /\ yaw_angles.kind = "list"
            /\ Len(yaw_angles.val) # Len(turbines)
            /\ set_yaw_angles(yaw_angles) ) =>
             /\ last_error' = "ShapeMismatch"
             /\ heap' = heap]_vars

\* C6: after set_yaw_angles(v) with a number v every turbine's yaw angle is
\* v; after set_yaw_angles of a list as long as the farm has turbines, the
\* i-th turbine's yaw angle is the list's i-th entry.
C6_YawAssigned ==
    [][\A yaw_angles \in YawInputs(Len(turbines)) :
          set_yaw_angles(yaw_angles) =>
             /\ yaw_angles.kind = "scalar" =>
                   \A i \in 1..Len(turbines) :
                      heap'[turbines[i]] = yaw_angles.val
             /\ ( yaw_angles.kind = "list"
                  /\ Len(yaw_angles.val) = Len(turbines) ) =>
                   \A i \in 1..Len(turbines) :
                      heap'[turbines[i]] = yaw_angles.val[i]]_vars

\* Both turbines of a farm at yaw 1, the template at 0.
C6_Witness ==
    /\ pc = "idle"
    /\ Len(turbines) = 2
    /\ heap[TemplateId] = 0
    /\ heap[turbines[1]] = 1
    /\ heap[turbines[2]] = 1

\* C7: a Farm built from layouts of equal length N has N turbines, pairwise
\* distinct objects none of which is the template, each with the template's
\* yaw angle when built, and keeps them; no call changes the template's yaw
\* angle, and a set_yaw_angles call leaves the yaw
\* angle of every turbine it assigns its current value to as it was, whatever
\* it assigns to the others.
C7_IndependentCopies ==
    [][( pc' = "idle" /\ Len(layout_x') = Len(layout_y') ) =>
          /\ Len(turbines') = Len(layout_x')
          /\ Distinct(turbines')
          /\ \A i \in 1..Len(turbines') : turbines'[i] # TemplateId
          /\ heap'[TemplateId] = heap[TemplateId]
          /\ pc = "new" =>
                \A i \in 1..Len(turbines') :
                   heap'[turbines'[i]] = heap[TemplateId]
          /\ \A yaw_angles \in YawInputs(Len(turbines)) :
                ( /\ yaw_angles.kind = "list"
                  /\ Len(yaw_angles.val) = Len(turbines)
                  /\ set_yaw_angles(yaw_angles) ) =>
                   \A j \in 1..Len(turbines) :
                      yaw_angles.val[j] = heap[turbines[j]] =>
                         heap'[turbines[j]] = heap[turbines[j]]]_vars

\* Two turbines built from a template at yaw 0; the first was turned, the
\* second and the template were not.
C7_Witness ==
    /\ pc = "idle"
    /\ Len(layout_x) = 2
    /\ Len(layout_y) = 2
    /\ heap[TemplateId] = 0
    /\ heap[turbines[1]] = 1
    /\ heap[turbines[2]] = 0

\* C8, as claimed: construction from layouts of different lengths raises
\* ShapeMismatch before any turbine copy is made and before a flow field is
\* assembled.
C8_LayoutMismatchRejected ==
    ( pc # "new" /\ Len(layout_x) # Len(layout_y) ) =>
       /\ pc = "failed"
       /\ last_error = "ShapeMismatch"
       /\ Len(heap) = 1
       /\ resolution = "none"

C10_Rotation ==
    [][\A k \in EighthTurns :
          rotate_z(k) =>
             LET x == coordinate.x
                 y == coordinate.y
                 xp == coordinate'.xprime
                 yp == coordinate'.yprime
             IN /\ coordinate'.x = x
                /\ coordinate'.y = y
                /\ k = 0 => xp = Scale * x /\ yp = Scale * y
                /\ k = 2 => xp = -(Scale * y) /\ yp = Scale * x
                /\ k = 4 => xp = -(Scale * x) /\ yp = -(Scale * y)
                /\ k = 6 => xp = Scale * y /\ yp = -(Scale * x)
                /\ (k = 2 /\ x = 1 /\ y = 0) => xp = 0 /\ yp = Scale]_vars

\* Coordinate(1, 0) after rotate_z(pi/2).
C10_Witness ==
    /\ coordinate.rotated
    /\ coordinate.x = 1
    /\ coordinate.y = 0
    /\ coordinate.xprime = 0
    /\ coordinate.yprime = Scale
====
